---- MODULE Spec2Model ----
(***************************************************************************)
(* A model of chpl/resolution/scope-types.h: the identifier collections    *)
(* (OwnedIdsWithName and its view BorrowedIdsWithName), Scope and its      *)
(* lookupInScope, VisibilitySymbols / ResolvedVisibilityScope, PoiScope,   *)
(* and InnermostMatch with its update<> merge hook.                        *)
(*                                                                         *)
(* Pointers are modelled as addresses: the vectors that OwnedIdsWithName   *)
(* allocates live in `heap` (a sequence, address = index, NULL = 0), and    *)
(* PoiScope objects live in `poiHeap`.                                     *)
(***************************************************************************)
EXTENDS Naturals, Sequences, FiniteSets

VARIABLES
  heap,      \* the std::vector<ID> objects allocated so far, by address
  owned,     \* the OwnedIdsWithName objects under test, by name
  views,     \* the BorrowedIdsWithName values taken so far
  viewOf,    \* history: for each view, its owner and the owner's size at the borrow
  hist,      \* history: for each owner, the ids given to it, in order
  scopes,    \* the Scope objects, by address
  result,    \* the caller's std::vector<BorrowedIdsWithName> accumulator
  ret,       \* what the last lookup returned
  call,      \* history: the last lookup that ran and its arguments
  keep,      \* the cached InnermostMatch
  addin,     \* the freshly computed InnermostMatch
  changed,   \* what the last update<InnermostMatch> returned: <<>> or <<bool>>
  merged,    \* history: <<the value addin held when update was last called>>
  poiHeap,   \* the PoiScope objects allocated so far, by address
  poiCmp,    \* the last PoiScope comparison and its result
  visA,      \* a VisibilitySymbols value
  visB,      \* another VisibilitySymbols value
  visOp      \* the last operation on visA / visB and what it returned

idVars    == <<heap, owned, views, viewOf, hist>>
scopeVars == <<scopes, result, ret, call>>
matchVars == <<keep, addin, changed, merged>>
poiVars   == <<poiHeap, poiCmp>>
visVars   == <<visA, visB, visOp>>
vars == <<heap, owned, views, viewOf, hist, scopes, result, ret, call,
          keep, addin, changed, merged, poiHeap, poiCmp, visA, visB, visOp>>

NULL == 0
None == "none"
NoOp == [op |-> None]
NoCmp == [a |-> NULL, b |-> NULL, res |-> FALSE]
NoCall == [op |-> None, scope |-> NULL, name |-> None, config |-> 0]

\* The bounds of the model.
MaxIds   == 3    \* ids held by one OwnedIdsWithName
MaxViews == 2    \* views borrowed in one run

\* The ID values used as inputs; 0 stands for the empty ID.
ID == {0, 1}

-----------------------------------------------------------------------------
(* OwnedIdsWithName / BorrowedIdsWithName                                   *)

\* OwnedIdsWithName(ID id) : id_(id), moreIds_(nullptr)
OwnedIdsWithName(i) == [id_ |-> i, moreIds_ |-> NULL]

\* A plausible slip: the existing id is not migrated into the new vector.
appendId_NoMigrate(h, o, newId) ==
  LET fresh == o.moreIds_ = NULL
      h1    == IF fresh THEN Append(h, <<>>) ELSE h
      p     == IF fresh THEN Len(h) + 1 ELSE o.moreIds_
  IN  [heap |-> [h1 EXCEPT ![p] = Append(h1[p], newId)],
       self |-> [o EXCEPT !.moreIds_ = p]]

\* A plausible slip: the new id is also stored as the inline id.
appendId_OverwriteInline(h, o, newId) ==
  LET fresh == o.moreIds_ = NULL
      h1    == IF fresh THEN Append(h, <<o.id_>>) ELSE h
      p     == IF fresh THEN Len(h) + 1 ELSE o.moreIds_
  IN  [heap |-> [h1 EXCEPT ![p] = Append(h1[p], newId)],
       self |-> [id_ |-> newId, moreIds_ |-> p]]

\* void appendId(ID newId), on object o with the heap h; yields the new heap
\* and the new value of the object.
appendId(h, o, newId) ==
  LET fresh == o.moreIds_ = NULL
      \* moreIds_ = toOwned(new std::vector<ID>()); moreIds_->push_back(id_);
      h1    == IF fresh THEN Append(h, <<o.id_>>) ELSE h
      p     == IF fresh THEN Len(h) + 1 ELSE o.moreIds_
      \* moreIds_->push_back(std::move(newId));
  IN  [heap |-> [h1 EXCEPT ![p] = Append(h1[p], newId)],
       self |-> [o EXCEPT !.moreIds_ = p]]

\* A plausible slip: the vectors are not compared.
OwnedIdsWithName_eq_NoVector(h, a, b) ==
  a.id_ = b.id_ /\ ((a.moreIds_ = NULL) = (b.moreIds_ = NULL))

\* bool OwnedIdsWithName::operator==(const OwnedIdsWithName& other) const
OwnedIdsWithName_eq(h, a, b) ==
  IF a.id_ # b.id_ THEN FALSE
  ELSE IF (a.moreIds_ = NULL) # (b.moreIds_ = NULL) THEN FALSE
  ELSE IF a.moreIds_ = NULL /\ b.moreIds_ = NULL THEN TRUE
  ELSE h[a.moreIds_] = h[b.moreIds_]

\* A plausible slip: the view copies the first id only.
BorrowedIdsWithName_FirstOnly(o) == [id_ |-> o.id_, moreIds_ |-> NULL]

\* BorrowedIdsWithName(const OwnedIdsWithName& o)
\*   : id_(o.id_), moreIds_(o.moreIds_.get())
BorrowedIdsWithName(o) == [id_ |-> o.id_, moreIds_ |-> o.moreIds_]

\* int BorrowedIdsWithName::numIds() const
numIds(h, b) == IF b.moreIds_ = NULL THEN 1 ELSE Len(h[b.moreIds_])

\* const ID& BorrowedIdsWithName::id(int i) const; for i > 0 the assertion
\* requires moreIds_ && i < moreIds_->size().
id(h, b, i) == IF i = 0 THEN b.id_ ELSE h[b.moreIds_][i + 1]

Owners == {"a", "b"}

\* The owners right after construction, each from any id.
InitIds ==
  /\ heap = <<>>
  /\ owned \in [Owners -> {OwnedIdsWithName(i) : i \in ID}]
  /\ hist = [o \in Owners |-> <<owned[o].id_>>]
  /\ views = <<>>
  /\ viewOf = <<>>
  \* the other components are idle
  /\ scopes = <<>>
  /\ result = <<>>
  /\ ret = None
  /\ call = NoCall
  /\ keep = None
  /\ addin = None
  /\ changed = <<>>
  /\ merged = <<>>
  /\ poiHeap = <<>>
  /\ poiCmp = NoCmp
  /\ visA = None
  /\ visB = None
  /\ visOp = NoOp

\* o.appendId(newId)
AppendId(o, newId) ==
  /\ Len(hist[o]) < MaxIds
  /\ LET r == appendId(heap, owned[o], newId)
     IN  /\ heap' = r.heap
         /\ owned' = [owned EXCEPT ![o] = r.self]
  /\ hist' = [hist EXCEPT ![o] = Append(@, newId)]
  /\ UNCHANGED <<views, viewOf>>

\* BorrowedIdsWithName v(o)
Borrow(o) ==
  /\ Len(views) < MaxViews
  /\ views' = Append(views, BorrowedIdsWithName(owned[o]))
  /\ viewOf' = Append(viewOf, [owner |-> o, len |-> Len(hist[o])])
  /\ UNCHANGED <<heap, owned, hist>>


-----------------------------------------------------------------------------
(* Scope and lookup                                                         *)

MaxResult == 2   \* elements the accumulator holds before a lookupInScope
NumScopes == 2   \* depth of the scope chain: scope 1 is the root

\* enum { LOOKUP_DECLS = 1, ..., LOOKUP_PARENTS = 4, ..., LOOKUP_INNERMOST = 16 }
LOOKUP_DECLS     == 1
LOOKUP_PARENTS   == 4
LOOKUP_INNERMOST == 16

\* using LookupConfig = unsigned int; the configurations over the three flags.
LookupConfig ==
  {d + p + i : d \in {0, LOOKUP_DECLS}, p \in {0, LOOKUP_PARENTS},
               i \in {0, LOOKUP_INNERMOST}}

\* (config & flag) != 0
HasFlag(config, flag) == (config \div flag) % 2 = 1

Names == {"x", "y"}
ScopeAddrs == 1..NumScopes

\* A plausible slip: "something was appended" is reported on a miss too.
lookupInScope_AlwaysTrue(scope, name, res) ==
  IF name \in DOMAIN scope.declared_
  THEN [ret |-> TRUE,
        result |-> Append(res, BorrowedIdsWithName(scope.declared_[name]))]
  ELSE [ret |-> TRUE, result |-> res]

\* A plausible slip: a default-constructed view is pushed on a miss.
lookupInScope_PushOnMiss(scope, name, res) ==
  IF name \in DOMAIN scope.declared_
  THEN [ret |-> TRUE,
        result |-> Append(res, BorrowedIdsWithName(scope.declared_[name]))]
  ELSE [ret |-> FALSE, result |-> Append(res, [id_ |-> 0, moreIds_ |-> NULL])]

\* bool Scope::lookupInScope(UniqueString name,
\*                           std::vector<BorrowedIdsWithName>& result) const
lookupInScope(scope, name, res) ==
  IF name \in DOMAIN scope.declared_
  THEN [ret |-> TRUE,
        result |-> Append(res, BorrowedIdsWithName(scope.declared_[name]))]
  ELSE [ret |-> FALSE, result |-> res]

\* The traversal over the parent chain, from scope s with accumulator acc:
\* DECLS consults the scope's own declarations; INNERMOST stops at the first
\* scope that produced a match; otherwise PARENTS moves on to the parent.
RECURSIVE LookupTraversal(_, _, _, _, _)
LookupTraversal(sc, s, name, config, acc) ==
  LET r == IF HasFlag(config, LOOKUP_DECLS)
           THEN lookupInScope(sc[s], name, acc)
           ELSE [ret |-> FALSE, result |-> acc]
  IN  IF HasFlag(config, LOOKUP_INNERMOST) /\ r.ret THEN r.result
      ELSE IF HasFlag(config, LOOKUP_PARENTS) /\ sc[s].parentScope_ # NULL
           THEN LookupTraversal(sc, sc[s].parentScope_, name, config, r.result)
           ELSE r.result

\* The id of the k-th declaration of name n directly in scope s: every
\* declaration has an id of its own.
DeclId(s, n, k) == s * 100 + (IF n = "x" THEN 10 ELSE 20) + k

\* How many declarations a name may have directly in one scope.
DeclCounts == [x : {0, 1, 2}, y : {0, 1, 2}]

\* The bucket of a name declared cnt >= 1 times in scope s, built as the
\* constructor and appendId build it, with the heap h.
RECURSIVE MakeBucket(_, _, _, _)
MakeBucket(h, s, n, cnt) ==
  IF cnt = 1 THEN [heap |-> h, self |-> OwnedIdsWithName(DeclId(s, n, 1))]
  ELSE LET b == MakeBucket(h, s, n, cnt - 1)
       IN  appendId(b.heap, b.self, DeclId(s, n, cnt))

\* The heap after the buckets of the first k scopes were built (x then y).
RECURSIVE HeapAfter(_, _)
HeapX(cnt, s) ==
  LET h == HeapAfter(cnt, s - 1)
  IN  IF cnt[s].x = 0 THEN h ELSE MakeBucket(h, s, "x", cnt[s].x).heap
HeapAfter(cnt, k) ==
  IF k = 0 THEN <<>>
  ELSE IF cnt[k].y = 0 THEN HeapX(cnt, k)
       ELSE MakeBucket(HeapX(cnt, k), k, "y", cnt[k].y).heap

\* DeclMap declared_ of scope s.
DeclMapOf(cnt, s) ==
  [n \in {m \in Names : cnt[s][m] > 0} |->
     IF n = "x" THEN MakeBucket(HeapAfter(cnt, s - 1), s, "x", cnt[s].x).self
     ELSE MakeBucket(HeapX(cnt, s), s, "y", cnt[s].y).self]

\* class Scope: parentScope_ and declared_; the scopes form a chain.
ScopesOf(cnt) ==
  [s \in ScopeAddrs |->
     [parentScope_ |-> IF s = 1 THEN NULL ELSE s - 1,
      declared_ |-> DeclMapOf(cnt, s)]]


\* Scope trees built and published, the accumulator empty.
InitScope ==
  /\ \E cnt \in [ScopeAddrs -> DeclCounts] :
       /\ scopes = ScopesOf(cnt)
       /\ heap = HeapAfter(cnt, NumScopes)
  /\ result = <<>>
  /\ ret = None
  /\ call = NoCall
  \* the other components are idle
  /\ owned = <<>>
  /\ views = <<>>
  /\ viewOf = <<>>
  /\ hist = <<>>
  /\ keep = None
  /\ addin = None
  /\ changed = <<>>
  /\ merged = <<>>
  /\ poiHeap = <<>>
  /\ poiCmp = NoCmp
  /\ visA = None
  /\ visB = None
  /\ visOp = NoOp

\* ret = scope.lookupInScope(name, result)
LookupInScope(s, n) ==
  /\ Len(result) < MaxResult
  /\ LET r == lookupInScope(scopes[s], n, result)
     IN  /\ result' = r.result
         /\ ret' = r.ret
  /\ call' = [op |-> "lookupInScope", scope |-> s, name |-> n, config |-> 0]
  /\ UNCHANGED <<scopes, heap>>

\* result = the traversal from scope s for name n under config
Lookup(s, n, config) ==
  /\ result' = LookupTraversal(scopes, s, n, config, <<>>)
  /\ ret' = (result' # <<>>)
  /\ call' = [op |-> "lookup", scope |-> s, name |-> n, config |-> config]
  /\ UNCHANGED <<scopes, heap>>


-----------------------------------------------------------------------------
(* InnermostMatch and update<InnermostMatch>                                *)

\* typedef enum { ZERO = 0, ONE = 1, MANY = 2 } MatchesFound
ZERO == 0
ONE  == 1
MANY == 2
MatchesFound == {ZERO, ONE, MANY}

\* InnermostMatch(ID id, MatchesFound found); InnermostMatch() is
\* InnermostMatch(0, ZERO).
InnermostMatch(i, found) == [id |-> i, found |-> found]

\* bool InnermostMatch::operator==(const InnermostMatch& other) const
InnermostMatch_eq(a, b) == a.id = b.id /\ a.found = b.found

\* A plausible slip: found is not exchanged.
InnermostMatch_swap_IdOnly(a, b) ==
  [self  |-> [a EXCEPT !.id = b.id],
   other |-> [b EXCEPT !.id = a.id]]

\* void InnermostMatch::swap(InnermostMatch& other), on object a
InnermostMatch_swap(a, b) ==
  [self  |-> [a EXCEPT !.id = b.id, !.found = b.found],
   other |-> [b EXCEPT !.id = a.id, !.found = a.found]]

\* bool update<InnermostMatch>::operator()(InnermostMatch& keep,
\*                                         InnermostMatch& addin) const
update(k, a) ==
  LET match == InnermostMatch_eq(k, a)
  IN  IF match THEN [ret |-> FALSE, keep |-> k, addin |-> a]
      ELSE LET s == InnermostMatch_swap(k, a)
           IN  [ret |-> TRUE, keep |-> s.self, addin |-> s.other]

\* The ids of the matches computed; 0 is the empty ID.
MatchIds == {0, 1, 2}

InitMatch ==
  /\ keep = InnermostMatch(0, ZERO)
  /\ addin = InnermostMatch(0, ZERO)
  /\ changed = <<>>
  /\ merged = <<>>
  \* the other components are idle
  /\ heap = <<>>
  /\ owned = <<>>
  /\ views = <<>>
  /\ viewOf = <<>>
  /\ hist = <<>>
  /\ scopes = <<>>
  /\ result = <<>>
  /\ ret = None
  /\ call = NoCall
  /\ poiHeap = <<>>
  /\ poiCmp = NoCmp
  /\ visA = None
  /\ visB = None
  /\ visOp = NoOp

\* A query produced a new result.
Compute(m) ==
  /\ addin' = m
  /\ changed' = <<>>
  /\ merged' = <<>>
  /\ UNCHANGED keep

\* changed = update<InnermostMatch>()(keep, addin)
Update ==
  /\ LET r == update(keep, addin)
     IN  /\ keep' = r.keep
         /\ addin' = r.addin
         /\ changed' = <<r.ret>>
  /\ merged' = <<addin>>


-----------------------------------------------------------------------------
(* PoiScope                                                                *)

MaxPoi == 3      \* PoiScope objects allocated in one run

\* A plausible slip: inFnPoi is not compared.
PoiScope_eq_ScopeOnly(a, b) == a.inScope = b.inScope

\* bool PoiScope::operator==(const PoiScope& other) const
PoiScope_eq(a, b) == a.inScope = b.inScope /\ a.inFnPoi = b.inFnPoi


InitPoi ==
  /\ poiHeap = <<>>
  /\ poiCmp = NoCmp
  \* the other components are idle
  /\ heap = <<>>
  /\ owned = <<>>
  /\ views = <<>>
  /\ viewOf = <<>>
  /\ hist = <<>>
  /\ scopes = <<>>
  /\ result = <<>>
  /\ ret = None
  /\ call = NoCall
  /\ keep = None
  /\ addin = None
  /\ changed = <<>>
  /\ merged = <<>>
  /\ visA = None
  /\ visB = None
  /\ visOp = NoOp

\* new PoiScope{inScope, inFnPoi}: inFnPoi is nullptr or an existing PoiScope.
NewPoiScope(s, p) ==
  /\ Len(poiHeap) < MaxPoi
  /\ p \in {NULL} \cup DOMAIN poiHeap
  /\ poiHeap' = Append(poiHeap, [inScope |-> s, inFnPoi |-> p])
  /\ UNCHANGED poiCmp

\* *p == *q
ComparePoi(p, q) ==
  /\ p \in DOMAIN poiHeap
  /\ q \in DOMAIN poiHeap
  /\ poiCmp' = [a |-> p, b |-> q, res |-> PoiScope_eq(poiHeap[p], poiHeap[q])]
  /\ UNCHANGED poiHeap


-----------------------------------------------------------------------------
(* VisibilitySymbols and ResolvedVisibilityScope                            *)

\* enum Kind
Kind == {"SYMBOL_ONLY", "ALL_CONTENTS", "ONLY_CONTENTS", "CONTENTS_EXCEPT"}

\* VisibilitySymbols(ID symbolId, Kind kind, bool isPrivate, names)
VisibilitySymbols(symbolId, kind, isPrivate, names) ==
  [symbolId |-> symbolId, kind |-> kind, isPrivate |-> isPrivate, names |-> names]

\* VisibilitySymbols() { }: Kind kind = SYMBOL_ONLY; bool isPrivate = true;
DefaultVisibilitySymbols == VisibilitySymbols(0, "SYMBOL_ONLY", TRUE, <<>>)

\* The clauses used as inputs.
Clauses ==
  {VisibilitySymbols(i, k, p, n) :
     i \in ID, k \in Kind, p \in BOOLEAN, n \in {<<>>, << <<"x", "y">> >>}}

\* bool VisibilitySymbols::operator==(const VisibilitySymbols& other) const
VisibilitySymbols_eq(a, b) ==
  a.symbolId = b.symbolId /\ a.kind = b.kind /\ a.names = b.names

\* void VisibilitySymbols::swap(VisibilitySymbols& other), on object a
VisibilitySymbols_swap(a, b) ==
  [self  |-> [a EXCEPT !.symbolId = b.symbolId, !.kind = b.kind, !.names = b.names],
   other |-> [b EXCEPT !.symbolId = a.symbolId, !.kind = a.kind, !.names = a.names]]

\* ResolvedVisibilityScope(const Scope* scope) with the clauses pushed onto
\* visibilityClauses
ResolvedVisibilityScope(scope, clauses) ==
  [scope |-> scope, visibilityClauses |-> clauses]

\* bool ResolvedVisibilityScope::operator==(...) const; the vectors compare
\* by size and then element by element with VisibilitySymbols::operator==.
ResolvedVisibilityScope_eq(x, y) ==
  /\ x.scope = y.scope
  /\ Len(x.visibilityClauses) = Len(y.visibilityClauses)
  /\ \A i \in 1..Len(x.visibilityClauses) :
       VisibilitySymbols_eq(x.visibilityClauses[i], y.visibilityClauses[i])


InitVis ==
  /\ visA = DefaultVisibilitySymbols
  /\ visB = DefaultVisibilitySymbols
  /\ visOp = NoOp
  \* the other components are idle
  /\ heap = <<>>
  /\ owned = <<>>
  /\ views = <<>>
  /\ viewOf = <<>>
  /\ hist = <<>>
  /\ scopes = <<>>
  /\ result = <<>>
  /\ ret = None
  /\ call = NoCall
  /\ keep = None
  /\ addin = None
  /\ changed = <<>>
  /\ merged = <<>>
  /\ poiHeap = <<>>
  /\ poiCmp = NoCmp

\* visA = VisibilitySymbols(...)
ConstructA(c) ==
  /\ visA' = c
  /\ visOp' = NoOp
  /\ UNCHANGED visB

\* visB = VisibilitySymbols(...)
ConstructB(c) ==
  /\ visB' = c
  /\ visOp' = NoOp
  /\ UNCHANGED visA

\* visA == visB
CompareVis ==
  /\ visOp' = [op |-> "eq", res |-> VisibilitySymbols_eq(visA, visB)]
  /\ UNCHANGED <<visA, visB>>

\* x == y for two ResolvedVisibilityScopes of scopes s1 and s2 whose clause
\* lists are {visB, visA} and {visB, visB}
CompareResolved(s1, s2) ==
  /\ LET x == ResolvedVisibilityScope(s1, <<visB, visA>>)
         y == ResolvedVisibilityScope(s2, <<visB, visB>>)
     IN  visOp' = [op |-> "rvsEq", x |-> x, y |-> y,
                   res |-> ResolvedVisibilityScope_eq(x, y)]
  /\ UNCHANGED <<visA, visB>>

\* visA.swap(visB)
Swap ==
  /\ LET r == VisibilitySymbols_swap(visA, visB)
     IN  /\ visA' = r.self
         /\ visB' = r.other
  /\ visOp' = [op |-> "swap"]


-----------------------------------------------------------------------------
(* The specifications, one per component; the other components stay idle.  *)

NextIds ==
  \/ \E o \in Owners, newId \in ID : AppendId(o, newId) /\ UNCHANGED <<scopeVars, matchVars, poiVars, visVars>>
  \/ \E o \in Owners : Borrow(o) /\ UNCHANGED <<scopeVars, matchVars, poiVars, visVars>>

SpecIds ==
  InitIds /\ [][NextIds]_vars

NextScope ==
  \/ \E s \in ScopeAddrs, n \in Names :
       LookupInScope(s, n) /\ UNCHANGED <<owned, views, viewOf, hist, matchVars, poiVars, visVars>>
  \/ \E s \in ScopeAddrs, n \in Names, config \in LookupConfig :
       Lookup(s, n, config) /\ UNCHANGED <<owned, views, viewOf, hist, matchVars, poiVars, visVars>>

SpecScope ==
  InitScope /\ [][NextScope]_vars

NextMatch ==
  \/ \E i \in MatchIds, f \in MatchesFound :
       Compute(InnermostMatch(i, f)) /\ UNCHANGED <<idVars, scopeVars, poiVars, visVars>>
  \/ Update /\ UNCHANGED <<idVars, scopeVars, poiVars, visVars>>

SpecMatch ==
  InitMatch /\ [][NextMatch]_vars

NextPoi ==
  \/ \E s \in {NULL} \cup ScopeAddrs, p \in 0..MaxPoi :
       NewPoiScope(s, p) /\ UNCHANGED <<idVars, scopeVars, matchVars, visVars>>
  \/ \E p \in 1..MaxPoi, q \in 1..MaxPoi :
       ComparePoi(p, q) /\ UNCHANGED <<idVars, scopeVars, matchVars, visVars>>

SpecPoi ==
  InitPoi /\ [][NextPoi]_vars

NextVis ==
  \/ \E c \in Clauses : ConstructA(c) /\ UNCHANGED <<idVars, scopeVars, matchVars, poiVars>>
  \/ \E c \in Clauses : ConstructB(c) /\ UNCHANGED <<idVars, scopeVars, matchVars, poiVars>>
  \/ CompareVis /\ UNCHANGED <<idVars, scopeVars, matchVars, poiVars>>
  \/ \E s1 \in ScopeAddrs, s2 \in ScopeAddrs :
       CompareResolved(s1, s2) /\ UNCHANGED <<idVars, scopeVars, matchVars, poiVars>>
  \/ Swap /\ UNCHANGED <<idVars, scopeVars, matchVars, poiVars>>

SpecVis ==
  InitVis /\ [][NextVis]_vars

-----------------------------------------------------------------------------
(* The claims                                                               *)

\* What a view reports, as a sequence: id(0), ..., id(numIds() - 1).
\* (Only used where numIds() is within the view's storage.)
IdsSeenBy(h, b) == [i \in 1..numIds(h, b) |-> id(h, b, i - 1)]

\* C1: an OwnedIdsWithName constructed from a and given appendId(b),
\* appendId(c), ... in that order, read through a BorrowedIdsWithName borrowed
\* after the last append, has numIds() equal to the number of ids given and
\* id(i) equal to the i-th of them, in append order.
C1_AppendOrder ==
  \A v \in DOMAIN views :
    LET o == viewOf[v].owner
    IN  viewOf[v].len = Len(hist[o]) =>
          /\ numIds(heap, views[v]) = Len(hist[o])
          /\ \A i \in 0..(Len(hist[o]) - 1) : id(heap, views[v], i) = hist[o][i + 1]

\* A view borrowed after the second append to its owner.
C1_Witness ==
  \E v \in DOMAIN views :
    /\ viewOf[v].len = Len(hist[viewOf[v].owner])
    /\ viewOf[v].len >= 3

\* C2: two OwnedIdsWithName values, each reached by any history of
\* construction and appendId, compare equal under operator== if and only if
\* their id sequences are element-wise equal.
C2_EqualIffSameIds ==
  \A a \in Owners, b \in Owners :
    OwnedIdsWithName_eq(heap, owned[a], owned[b]) <=> (hist[a] = hist[b])

\* Two sequence-backed owners with the same first id and the same number of
\* ids whose sequences differ, and so compare unequal by their vectors alone.
C2_Witness ==
  /\ owned["a"].moreIds_ # NULL
  /\ owned["b"].moreIds_ # NULL
  /\ hist["a"][1] = hist["b"][1]
  /\ Len(hist["a"]) = Len(hist["b"])
  /\ hist["a"] # hist["b"]
  /\ ~OwnedIdsWithName_eq(heap, owned["a"], owned["b"])

\* C7 (state part): an OwnedIdsWithName is inline-only or sequence-backed;
\* when sequence-backed its vector has at least two elements and element 0
\* is the inline id.
StorageInv ==
  \A o \in Owners :
    LET m == owned[o].moreIds_
    IN  m = NULL \/ (m \in DOMAIN heap /\ Len(heap[m]) >= 2 /\ heap[m][1] = owned[o].id_)

\* C7 (step part): the inline id never changes and a sequence-backed bucket
\* never becomes inline-only again.
StorageStep ==
  \A o \in Owners :
    /\ owned'[o].id_ = owned[o].id_
    /\ owned[o].moreIds_ # NULL => owned'[o].moreIds_ # NULL

\* C7: after construction and after every appendId the storage-mode
\* invariant holds, the inline id is never changed, and the bucket never
\* goes back from sequence-backed to inline-only.
C7_StorageMode == []StorageInv /\ [][StorageStep]_vars

\* An owner that took two appends and holds three ids in its vector.
C7_Witness ==
  \E o \in Owners :
    /\ owned[o].moreIds_ # NULL
    /\ Len(heap[owned[o].moreIds_]) >= 3

\* C8: a view taken while its owner was inline-only keeps reporting
\* numIds() = 1 and the first id once the owner holds two or more ids; a view
\* taken while the owner was sequence-backed, or not followed by any
\* appendId, reports exactly the owner's ids.
C8_ViewStaleness ==
  \A v \in DOMAIN views :
    LET o == viewOf[v].owner
        n == Len(hist[o])
    IN  /\ (viewOf[v].len = 1 /\ n > 1) =>
             /\ numIds(heap, views[v]) = 1
             /\ id(heap, views[v], 0) = hist[o][1]
             /\ numIds(heap, BorrowedIdsWithName(owned[o])) >= 2
        /\ (viewOf[v].len > 1 \/ viewOf[v].len = n) =>
             /\ numIds(heap, views[v]) = n
             /\ IdsSeenBy(heap, views[v]) = hist[o]

\* One view taken from an inline-only owner that has since been appended
\* to, and one taken from a sequence-backed owner that has since been
\* appended to.
C8_Witness ==
  /\ \E v \in DOMAIN views :
       viewOf[v].len = 1 /\ Len(hist[viewOf[v].owner]) > 1
  /\ \E v \in DOMAIN views :
       viewOf[v].len > 1 /\ Len(hist[viewOf[v].owner]) > viewOf[v].len

\* C3: lookupInScope(name, result) on a name the scope does not declare
\* returns false and leaves result as it was; on a declared name it returns
\* true and appends exactly one view, that of the name's bucket, after the
\* elements already there; the scope is not modified either way.
C3_LookupInScopeFrame ==
  [][call'.op = "lookupInScope" =>
       LET s == call'.scope
           n == call'.name
       IN  /\ IF n \notin DOMAIN scopes[s].declared_
              THEN ret' = FALSE /\ result' = result
              ELSE /\ ret' = TRUE
                   /\ Len(result') = Len(result) + 1
                   /\ SubSeq(result', 1, Len(result)) = result
                   /\ LET b == result'[Len(result')]
                          d == scopes[s].declared_[n]
                      IN  /\ b.id_ = d.id_
                          /\ b.moreIds_ = d.moreIds_
                          /\ IdsSeenBy(heap, b) =
                               IF d.moreIds_ = NULL THEN <<d.id_>> ELSE heap[d.moreIds_]
           /\ scopes' = scopes
           /\ heap' = heap]_vars

\* A miss with a non-empty accumulator.
C3_Witness ==
  /\ call.op = "lookupInScope"
  /\ call.name \notin DOMAIN scopes[call.scope].declared_
  /\ ret = FALSE
  /\ result # <<>>

\* The scopes from s up to the root, innermost first.
RECURSIVE ParentChain(_, _)
ParentChain(sc, s) ==
  IF s = NULL THEN <<>> ELSE <<s>> \o ParentChain(sc, sc[s].parentScope_)

\* C5: with DECLS and PARENTS the traversal returns the match of every scope
\* on the parent chain that declares the name, innermost first; with
\* INNERMOST as well, only the match of the innermost such scope; without
\* PARENTS only the start scope is consulted.
C5_Traversal ==
  call.op = "lookup" =>
    LET Declares(s) == call.name \in DOMAIN scopes[s].declared_
        chain == ParentChain(scopes, call.scope)
        hits  == SelectSeq(chain, Declares)
        want  == IF ~HasFlag(call.config, LOOKUP_DECLS) THEN <<>>
                 ELSE IF ~HasFlag(call.config, LOOKUP_PARENTS)
                      THEN SelectSeq(<<call.scope>>, Declares)
                 ELSE IF HasFlag(call.config, LOOKUP_INNERMOST)
                      THEN SubSeq(hits, 1, IF hits = <<>> THEN 0 ELSE 1)
                 ELSE hits
    IN  /\ Len(result) = Len(want)
        /\ \A i \in DOMAIN want :
             /\ result[i].id_ = DeclId(want[i], call.name, 1)
             /\ result[i] = BorrowedIdsWithName(scopes[want[i]].declared_[call.name])

\* A traversal from the child scope under {DECLS, PARENTS, INNERMOST} for a
\* name that both the child and its parent declare, with one match returned.
C5_Witness ==
  /\ call.op = "lookup"
  /\ call.scope = NumScopes
  /\ call.config = LOOKUP_DECLS + LOOKUP_PARENTS + LOOKUP_INNERMOST
  /\ \A s \in ScopeAddrs : call.name \in DOMAIN scopes[s].declared_
  /\ Len(result) = 1

\* C4: update(keep, addin) on equal values returns false and leaves keep
\* untouched; otherwise it returns true and keep then holds what addin held
\* before the call; so after every merge keep equals the addin last merged.
C4_MergeContract ==
  /\ [](changed # <<>> => <<keep>> = merged)
  /\ [][changed' # <<>> =>
          IF keep.id = addin.id /\ keep.found = addin.found
          THEN changed' = <<FALSE>> /\ keep' = keep
          ELSE changed' = <<TRUE>> /\ keep' = addin]_vars

\* A merge that reported a change where only found differed.
C4_Witness ==
  /\ changed = <<TRUE>>
  /\ <<keep>> = merged
  /\ addin.id = keep.id
  /\ addin.found # keep.found

\* The number of PoiScopes on the inFnPoi chain that starts at address p.
RECURSIVE PoiDepth(_, _)
PoiDepth(ph, p) == IF p = NULL THEN 0 ELSE 1 + PoiDepth(ph, ph[p].inFnPoi)

\* C6: two PoiScope values compare equal if and only if they have the same
\* inScope reference and the same inFnPoi reference; chains of different
\* depth compare unequal.
C6_PoiScopeEquality ==
  poiCmp.a # NULL =>
    LET x == poiHeap[poiCmp.a]
        y == poiHeap[poiCmp.b]
    IN  /\ poiCmp.res <=> (x.inScope = y.inScope /\ x.inFnPoi = y.inFnPoi)
        /\ PoiDepth(poiHeap, poiCmp.a) # PoiDepth(poiHeap, poiCmp.b) => ~poiCmp.res

\* Two distinct PoiScope objects with the same inScope, of which one chains
\* to a further PoiScope and the other does not, compared unequal.
C6_Witness ==
  /\ poiCmp.a # NULL
  /\ poiCmp.res = FALSE
  /\ poiHeap[poiCmp.a].inScope = poiHeap[poiCmp.b].inScope
  /\ poiHeap[poiCmp.a].inFnPoi = NULL
  /\ poiHeap[poiCmp.b].inFnPoi # NULL

\* C9: two VisibilitySymbols compare equal if and only if they have the same
\* symbolId, kind, isPrivate and names; two ResolvedVisibilityScopes compare
\* equal if and only if they have the same scope and the same clauses.
C9_EqualityAllFields ==
  /\ visOp.op = "eq" => (visOp.res <=> visA = visB)
  /\ visOp.op = "rvsEq" => (visOp.res <=> visOp.x = visOp.y)

\* C10: after a.swap(b) every field of a holds the value b had before the
\* call and every field of b the value a had.
C10_SwapAllFields ==
  [][visOp'.op = "swap" => visA' = visB /\ visB' = visA]_vars

====
